---- MODULE Spec2Model ----
\* The dispatch loop of setup_quic_server (src/src/lib.rs): one UDP socket, a
\* table of QUIC connections keyed by destination connection id, and the
\* quiche engine driven once per received datagram.
EXTENDS Integers, Sequences, FiniteSets, TLC

\* ---------------------------------------------------------------- bounds
MaxCid == 2          \* connection ids 1..MaxCid appear on the wire
MaxPending == 2      \* packets an engine can have due at one time

\* ------------------------------------------------------------- constants
MAX_DATAGRAM_SIZE == 1350
QUIC_V1 == 1
PROTOCOL_VERSION == 1
BufSize == 65535                 \* let mut buf = [0; 65535]

EmptyCid == 0                    \* the zero-length connection id
NoVersion == -1                  \* a short header carries no version field
CIDs == 1..MaxCid                \* destination ids, the routing keys
ClientCids == {EmptyCid, 9}      \* source ids a client puts in a long header
Addrs == {"peerA", "peerB"}
Versions == {0, 1, 2}            \* 0: negotiation packet, 1: QUIC v1, 2: unsupported
NoDgram == [form |-> "none"]
NoHdr == [version |-> NoVersion]

\* A datagram as the socket holds it: the header form, whether the header
\* bytes are well formed, the fields a long header carries, the source
\* address recv_from reports, and its length in bytes.
LongDatagrams ==
  [form : {"long"}, wellformed : {TRUE}, version : Versions,
   dcid : CIDs, scid : ClientCids, from : Addrs, len : {1200}]
ShortDatagrams ==
  [form : {"short"}, wellformed : {TRUE}, version : {NoVersion},
   dcid : CIDs, scid : {EmptyCid}, from : Addrs, len : {1200}]
MalformedDatagrams ==
  [form : {"long", "short"}, wellformed : {FALSE}, version : {NoVersion},
   dcid : {EmptyCid}, scid : {EmptyCid}, from : Addrs, len : {1200}]
Datagrams == LongDatagrams \cup ShortDatagrams \cup MalformedDatagrams

\* The same datagrams from one peer, in the lengths that matter to the
\* buffers: within MAX_DATAGRAM_SIZE, just above it, and the largest payload
\* a UDP datagram over IPv4 carries.
WireSizes == {1200, 1400, 65507}
SizedDatagrams ==
  {[d EXCEPT !.len = n] :
     d \in {x \in Datagrams : x.from = "peerA" /\ x.scid = EmptyCid},
     n \in WireSizes}

VARIABLES
  pc,         \* position in the loop body
  status,     \* "running", "returned_err" (Err out of the entry point), "panicked"
  cur,        \* the datagram of the current cycle
  hdr,        \* the parsed header of the current cycle
  clients,    \* the ClientMap: connection id -> Client
  calls,      \* engine operations invoked in the current cycle, in order
  sent,       \* socket.send_to calls of the current cycle, in order
  naccept,    \* per connection id, the connections quiche::accept has returned for it
  recvFailed  \* socket.recv_from has returned Err

vars == <<pc, status, cur, hdr, clients, calls, sent, naccept, recvFailed>>

recv_from_wholebuf(n) == BufSize

\* socket.recv_from(&mut buf): len is the number of bytes written into buf;
\* what does not fit into buf is cut off
recv_from(n) == IF n > BufSize THEN BufSize ELSE n

\* quiche::Header::from_slice(pkt_buf, MAX_CONN_ID_LEN): Err on malformed
\* bytes; a short header has no version field and no source id, and the
\* Header reports version 0 and an empty scid for it.
from_slice(d) ==
  IF ~d.wellformed THEN NoHdr
  ELSE IF d.form = "short"
       THEN [version |-> 0, dcid |-> d.dcid, scid |-> EmptyCid]
       ELSE [version |-> d.version, dcid |-> d.dcid, scid |-> d.scid]

\* quiche::negotiate_version(scid, dcid, out): the packet's destination id is
\* the scid argument, its source id the dcid argument; version field 0; the
\* list holds the version the library is configured for.
negotiate_version(scid, dcid) ==
  [kind |-> "vn", version |-> 0, dcid |-> scid, scid |-> dcid,
   versions |-> {PROTOCOL_VERSION}]

\* line 83: negotiate_version(&hdr.scid, &hdr.dcid, &mut out)
VersionNegotiation(h) == negotiate_version(h.scid, h.dcid)

UnsupportedVersion_inverted(h) == h.version = QUIC_V1

\* line 81: hdr.version != QUIC_V1
UnsupportedVersion(h) == h.version # QUIC_V1

\* Client { conn } as quiche::accept returns it. uid names the Connection
\* object: the n-th connection accepted for connection id d.
\*   established  conn.is_established()
\*   finished     conn.stream_finished(0): the peer's side of stream 0 is
\*                finished and read
\*   finSent      the engine holds the server's fin for stream 0
\*   pending      packets conn.send would return before Err(Done)
\*   tried        conn.stream_send has been called on this connection
NewClient(d, n) ==
  [uid |-> <<d, n>>, established |-> FALSE, finished |-> FALSE,
   finSent |-> FALSE, pending |-> 0, tried |-> FALSE]

Call(op, id, res) == [op |-> op, id |-> id, res |-> res]
Send(pkt, to, ok) == [pkt |-> pkt, to |-> to, ok |-> ok]
\* a packet conn.send wrote into `out`, and the send_info.to it names
EnginePacket(c) == [kind |-> "quic", uid |-> c.uid]
SendInfoTo(c) == <<"send_info.to", c.uid>>

\* lines 29-66: the buffers and the empty table; the socket is bound and the
\* configuration built, and the loop is about to start, or one of the `?` of
\* lines 33-65 has returned Err, or one of the println! of lines 36-66 has
\* panicked, before the loop.
Init ==
  /\ \/ pc = "recv" /\ status = "running"
     \/ pc = "done" /\ status \in {"returned_err", "panicked"}
  /\ cur = NoDgram
  /\ hdr = NoHdr
  /\ clients = <<>>
  /\ calls = <<>>
  /\ sent = <<>>
  /\ naccept = [d \in CIDs |-> 0]
  /\ recvFailed = FALSE

\* lines 69-70, Ok: the next datagram is pkt_buf = buf[..len]
Recv(D) ==
  /\ pc = "recv" /\ status = "running"
  /\ \E d \in D : cur' = [d EXCEPT !.len = recv_from(d.len)]
  /\ pc' = "parse"
  /\ UNCHANGED <<status, hdr, clients, calls, sent, naccept, recvFailed>>

RecvOk_early ==
  /\ pc \in {"recv", "flush"} /\ status = "running"
  /\ \E d \in Datagrams : cur' = [d EXCEPT !.len = recv_from(d.len)]
  /\ pc' = "parse"
  /\ UNCHANGED <<status, hdr, clients, calls, sent, naccept, recvFailed>>

RecvOk == Recv(Datagrams)

\* the same step, for datagrams of every length
RecvOkSized == Recv(SizedDatagrams)

RecvErr_continue ==
  /\ pc = "recv" /\ status = "running"
  /\ recvFailed' = TRUE
  /\ UNCHANGED <<pc, status, cur, hdr, clients, calls, sent, naccept>>

\* line 69, Err: map_err(io_err_to_napi)? returns the error to the caller
RecvErr ==
  /\ pc = "recv" /\ status = "running"
  /\ recvFailed' = TRUE
  /\ status' = "returned_err"
  /\ pc' = "done"
  /\ UNCHANGED <<cur, hdr, clients, calls, sent, naccept>>

\* lines 72-73: the header parses
ParseOk ==
  /\ pc = "parse" /\ status = "running"
  /\ from_slice(cur) # NoHdr
  /\ hdr' = from_slice(cur)
  /\ pc' = "version"
  /\ UNCHANGED <<status, cur, clients, calls, sent, naccept, recvFailed>>

\* lines 74-77: log and continue
ParseErr ==
  /\ pc = "parse" /\ status = "running"
  /\ from_slice(cur) = NoHdr
  /\ pc' = "end"
  /\ UNCHANGED <<status, cur, hdr, clients, calls, sent, naccept, recvFailed>>

VersionMismatch_creates ==
  /\ pc = "version" /\ status = "running"
  /\ UnsupportedVersion(hdr)
  /\ \E ok \in BOOLEAN :
       sent' = Append(sent, Send(VersionNegotiation(hdr), cur.from, ok))
  /\ clients' = IF hdr.dcid \in DOMAIN clients THEN clients
                ELSE clients @@ (hdr.dcid :> NewClient(hdr.dcid, 1))
  /\ pc' = "end"
  /\ UNCHANGED <<status, cur, hdr, calls, naccept, recvFailed>>

\* lines 81-92: build the negotiation packet, send it to `from` (a send
\* error is logged), continue
VersionMismatch ==
  /\ pc = "version" /\ status = "running"
  /\ UnsupportedVersion(hdr)
  /\ \E ok \in BOOLEAN :
       sent' = Append(sent, Send(VersionNegotiation(hdr), cur.from, ok))
  /\ pc' = "end"
  /\ UNCHANGED <<status, cur, hdr, clients, calls, naccept, recvFailed>>

\* line 81, condition false: fall through to the table
VersionOk ==
  /\ pc = "version" /\ status = "running"
  /\ ~UnsupportedVersion(hdr)
  /\ pc' = "route"
  /\ UNCHANGED <<status, cur, hdr, clients, calls, sent, naccept, recvFailed>>

\* line 95: the entry exists, or_insert_with does not run its closure
RouteExisting ==
  /\ pc = "route" /\ status = "running"
  /\ hdr.dcid \in DOMAIN clients
  /\ pc' = "ingest"
  /\ UNCHANGED <<status, cur, hdr, clients, calls, sent, naccept, recvFailed>>

AcceptOk_replace ==
  /\ pc = "route" /\ status = "running"
  /\ calls' = Append(calls, Call("accept", hdr.dcid, "ok"))
  /\ naccept' = [naccept EXCEPT ![hdr.dcid] = @ + 1]
  /\ clients' = [d \in DOMAIN clients \cup {hdr.dcid} |->
                   IF d = hdr.dcid THEN NewClient(d, naccept'[d]) ELSE clients[d]]
  /\ pc' = "ingest"
  /\ UNCHANGED <<status, cur, hdr, sent, recvFailed>>

\* lines 95-104: vacant entry, quiche::accept returns Ok(conn), Client { conn }
\* is inserted under hdr.dcid
AcceptOk ==
  /\ pc = "route" /\ status = "running"
  /\ hdr.dcid \notin DOMAIN clients
  /\ calls' = Append(calls, Call("accept", hdr.dcid, "ok"))
  /\ naccept' = [naccept EXCEPT ![hdr.dcid] = @ + 1]
  /\ clients' = clients @@ (hdr.dcid :> NewClient(hdr.dcid, naccept'[hdr.dcid]))
  /\ pc' = "ingest"
  /\ UNCHANGED <<status, cur, hdr, sent, recvFailed>>

\* lines 105-108: vacant entry, quiche::accept returns Err: panic!
AcceptErr ==
  /\ pc = "route" /\ status = "running"
  /\ hdr.dcid \notin DOMAIN clients
  /\ calls' = Append(calls, Call("accept", hdr.dcid, "err"))
  /\ status' = "panicked"
  /\ pc' = "done"
  /\ UNCHANGED <<cur, hdr, clients, sent, naccept, recvFailed>>

\* lines 114-117: conn.recv returns Ok. What the bytes do to the engine is the
\* engine's business: the handshake may complete; stream_finished(0) may
\* answer either way afterwards (it is true for a stream the engine does not
\* hold, false once the peer has opened it, true again once the peer has
\* finished it); the number of packets due may go up or down.
IngestOk_anyconn ==
  /\ pc = "ingest" /\ status = "running"
  /\ \E c \in DOMAIN clients, est \in BOOLEAN, fin \in BOOLEAN, p \in 0..MaxPending :
       /\ clients' = [clients EXCEPT ![c] =
                       [@ EXCEPT !.established = @ \/ est,
                                 !.finished = fin,
                                 !.pending = p]]
       /\ calls' = Append(calls, Call("recv", c, "ok"))
  /\ pc' = "respond"
  /\ UNCHANGED <<status, cur, hdr, sent, naccept, recvFailed>>

IngestOk ==
  /\ pc = "ingest" /\ status = "running"
  /\ \E est \in BOOLEAN, fin \in BOOLEAN, p \in 0..MaxPending :
       clients' = [clients EXCEPT ![hdr.dcid] =
                     [@ EXCEPT !.established = @ \/ est,
                               !.finished = fin,
                               !.pending = p]]
  /\ calls' = Append(calls, Call("recv", hdr.dcid, "ok"))
  /\ pc' = "respond"
  /\ UNCHANGED <<status, cur, hdr, sent, naccept, recvFailed>>

\* lines 118-121: conn.recv returns Err: log and continue. The engine may
\* have changed the number of packets due (queued a close, say) before it
\* reported the error.
IngestErr ==
  /\ pc = "ingest" /\ status = "running"
  /\ \E p \in 0..MaxPending :
       clients' = [clients EXCEPT ![hdr.dcid].pending = p]
  /\ calls' = Append(calls, Call("recv", hdr.dcid, "err"))
  /\ pc' = "end"
  /\ UNCHANGED <<status, cur, hdr, sent, naccept, recvFailed>>

\* line 124 false, or line 125 true: nothing is sent on the stream
RespondSkip ==
  /\ pc = "respond" /\ status = "running"
  /\ \/ ~clients[hdr.dcid].established
     \/ clients[hdr.dcid].finished
  /\ pc' = "flush"
  /\ UNCHANGED <<status, cur, hdr, clients, calls, sent, naccept, recvFailed>>

\* lines 128-131: stream_send(0, HELLO_MESSAGE, true) returns Ok. The engine
\* takes the message and the fin once; the data becomes due in a packet.
StreamSendOk_unguarded ==
  /\ pc = "respond" /\ status = "running"
  /\ ~clients[hdr.dcid].finished
  /\ ~clients[hdr.dcid].finSent
  /\ clients' = [clients EXCEPT ![hdr.dcid] =
                   [@ EXCEPT !.finSent = TRUE,
                             !.tried = TRUE,
                             !.pending = IF @ < MaxPending THEN @ + 1 ELSE @]]
  /\ calls' = Append(calls, Call("stream_send", hdr.dcid, "ok"))
  /\ pc' = "flush"
  /\ UNCHANGED <<status, cur, hdr, sent, naccept, recvFailed>>

StreamSendOk ==
  /\ pc = "respond" /\ status = "running"
  /\ clients[hdr.dcid].established
  /\ ~clients[hdr.dcid].finished
  /\ ~clients[hdr.dcid].finSent
  /\ clients' = [clients EXCEPT ![hdr.dcid] =
                   [@ EXCEPT !.finSent = TRUE,
                             !.tried = TRUE,
                             !.pending = IF @ < MaxPending THEN @ + 1 ELSE @]]
  /\ calls' = Append(calls, Call("stream_send", hdr.dcid, "ok"))
  /\ pc' = "flush"
  /\ UNCHANGED <<status, cur, hdr, sent, naccept, recvFailed>>

\* lines 132-134: stream_send returns Err (the stream is not open for the
\* server, its final size is already fixed, flow control, ...): log
StreamSendErr_continue ==
  /\ pc = "respond" /\ status = "running"
  /\ clients[hdr.dcid].established
  /\ ~clients[hdr.dcid].finished
  /\ clients' = [clients EXCEPT ![hdr.dcid].tried = TRUE]
  /\ calls' = Append(calls, Call("stream_send", hdr.dcid, "err"))
  /\ pc' = "end"
  /\ UNCHANGED <<status, cur, hdr, sent, naccept, recvFailed>>

StreamSendErr ==
  /\ pc = "respond" /\ status = "running"
  /\ clients[hdr.dcid].established
  /\ ~clients[hdr.dcid].finished
  /\ clients' = [clients EXCEPT ![hdr.dcid].tried = TRUE]
  /\ calls' = Append(calls, Call("stream_send", hdr.dcid, "err"))
  /\ pc' = "flush"
  /\ UNCHANGED <<status, cur, hdr, sent, naccept, recvFailed>>

FlushSend_fatal ==
  /\ pc = "flush" /\ status = "running"
  /\ clients[hdr.dcid].pending > 0
  /\ clients' = [clients EXCEPT ![hdr.dcid].pending = @ - 1]
  /\ calls' = Append(calls, Call("send", hdr.dcid, "ok"))
  /\ \E ok \in BOOLEAN :
       /\ sent' = Append(sent, Send(EnginePacket(clients[hdr.dcid]),
                                    SendInfoTo(clients[hdr.dcid]), ok))
       /\ status' = IF ok THEN status ELSE "returned_err"
       /\ pc' = IF ok THEN "end" ELSE "done"
  /\ UNCHANGED <<cur, hdr, naccept, recvFailed>>

\* lines 139-146: conn.send returns Ok((write, send_info)): one packet is
\* taken from the engine and sent to send_info.to, the address the engine
\* names (a send error is logged); the loop body ends
FlushSend ==
  /\ pc = "flush" /\ status = "running"
  /\ clients[hdr.dcid].pending > 0
  /\ clients' = [clients EXCEPT ![hdr.dcid].pending = @ - 1]
  /\ calls' = Append(calls, Call("send", hdr.dcid, "ok"))
  /\ \E ok \in BOOLEAN :
       sent' = Append(sent, Send(EnginePacket(clients[hdr.dcid]),
                                 SendInfoTo(clients[hdr.dcid]), ok))
  /\ pc' = "end"
  /\ UNCHANGED <<status, cur, hdr, naccept, recvFailed>>

\* lines 147-149: conn.send returns Err(Done): nothing is due; the loop body ends
FlushDone ==
  /\ pc = "flush" /\ status = "running"
  /\ clients[hdr.dcid].pending = 0
  /\ calls' = Append(calls, Call("send", hdr.dcid, "done"))
  /\ pc' = "end"
  /\ UNCHANGED <<status, cur, hdr, clients, sent, naccept, recvFailed>>

\* lines 150-152: conn.send returns another Err: log; the loop body ends
FlushErr_remove ==
  /\ pc = "flush" /\ status = "running"
  /\ calls' = Append(calls, Call("send", hdr.dcid, "err"))
  /\ clients' = [d \in DOMAIN clients \ {hdr.dcid} |-> clients[d]]
  /\ pc' = "end"
  /\ UNCHANGED <<status, cur, hdr, sent, naccept, recvFailed>>

FlushErr ==
  /\ pc = "flush" /\ status = "running"
  /\ calls' = Append(calls, Call("send", hdr.dcid, "err"))
  /\ pc' = "end"
  /\ UNCHANGED <<status, cur, hdr, clients, sent, naccept, recvFailed>>

\* lines 75-151: a println! or eprintln! of the loop body panics because the
\* write to stdout or stderr fails. At lines 82, 84 (unsupported version) and
\* 97 (vacant entry) nothing of the step has happened yet; everywhere else
\* the print is the last statement of a step that has been taken: line 116
\* after conn.recv Ok, lines 126, 130, 133 in the responder of an established
\* connection, lines 75, 87, 89, 119, 142, 144, 148, 151 at the end of the
\* loop body.
PrintPanic ==
  /\ status = "running"
  /\ \/ pc = "version" /\ UnsupportedVersion(hdr)
     \/ pc = "route" /\ hdr.dcid \notin DOMAIN clients
     \/ pc = "respond"
     \/ pc = "flush" /\ clients[hdr.dcid].established
     \/ pc = "end"
  /\ status' = "panicked"
  /\ pc' = "done"
  /\ UNCHANGED <<cur, hdr, clients, calls, sent, naccept, recvFailed>>

\* lines 99, 112: socket.local_addr().unwrap() panics when local_addr returns
\* Err: in the closure of a vacant entry before quiche::accept, and before
\* conn.recv
LocalAddrPanic ==
  /\ status = "running"
  /\ \/ pc = "route" /\ hdr.dcid \notin DOMAIN clients
     \/ pc = "ingest"
  /\ status' = "panicked"
  /\ pc' = "done"
  /\ UNCHANGED <<cur, hdr, clients, calls, sent, naccept, recvFailed>>

\* lines 100-102: quiche::accept returns Ok and the println! of line 102
\* panics inside the closure: nothing is inserted into the table
AcceptOkPanic ==
  /\ pc = "route" /\ status = "running"
  /\ hdr.dcid \notin DOMAIN clients
  /\ calls' = Append(calls, Call("accept", hdr.dcid, "ok"))
  /\ naccept' = [naccept EXCEPT ![hdr.dcid] = @ + 1]
  /\ status' = "panicked"
  /\ pc' = "done"
  /\ UNCHANGED <<cur, hdr, clients, sent, recvFailed>>

\* lines 68, 76, 91, 120, 154: `continue` or the end of the loop body. The
\* locals of the iteration (hdr, pkt_buf, conn_id, client) go out of scope
\* and the loop is back at recv_from.
LoopBack ==
  /\ pc = "end" /\ status = "running"
  /\ cur' = NoDgram
  /\ hdr' = NoHdr
  /\ calls' = <<>>
  /\ sent' = <<>>
  /\ pc' = "recv"
  /\ UNCHANGED <<status, clients, naccept, recvFailed>>

Next ==
  \/ RecvOk
  \/ RecvErr
  \/ ParseOk
  \/ ParseErr
  \/ VersionMismatch
  \/ VersionOk
  \/ RouteExisting
  \/ AcceptOk
  \/ AcceptErr
  \/ IngestOk
  \/ IngestErr
  \/ RespondSkip
  \/ StreamSendOk
  \/ StreamSendErr
  \/ FlushSend
  \/ FlushDone
  \/ FlushErr
  \/ PrintPanic
  \/ LocalAddrPanic
  \/ AcceptOkPanic
  \/ LoopBack

Spec == Init /\ [][Next]_vars

NextSized ==
  \/ RecvOkSized
  \/ RecvErr
  \/ ParseOk
  \/ ParseErr
  \/ VersionMismatch
  \/ VersionOk
  \/ RouteExisting
  \/ AcceptOk
  \/ AcceptErr
  \/ IngestOk
  \/ IngestErr
  \/ RespondSkip
  \/ StreamSendOk
  \/ StreamSendErr
  \/ FlushSend
  \/ FlushDone
  \/ FlushErr
  \/ PrintPanic
  \/ LocalAddrPanic
  \/ AcceptOkPanic
  \/ LoopBack

\* the same loop, fed datagrams of every length
SpecSized == Init /\ [][NextSized]_vars

\* ------------------------------------------------------------ properties

\* the header the Header Sniffer reports for the datagram of the cycle
Sniffed == IF cur = NoDgram THEN NoHdr ELSE from_slice(cur)
HeaderParsed == Sniffed # NoHdr
VersionDiffers == HeaderParsed /\ Sniffed.version # PROTOCOL_VERSION
VersionMatches == HeaderParsed /\ Sniffed.version = PROTOCOL_VERSION
Invoked(op, res) == \E i \in DOMAIN calls : calls[i].op = op /\ calls[i].res = res
LastCall == calls[Len(calls)]
StreamSendStep(d) ==
  \E r \in {"ok", "err"} : calls' = Append(calls, Call("stream_send", d, r))

\* C1: when accept fails for an identifier that is not in the table, the
\* datagram is dropped, the table has no entry for the identifier and the
\* dispatch loop keeps running.
C1_AcceptFailureContained ==
  \A i \in DOMAIN calls :
    (calls[i].op = "accept" /\ calls[i].res = "err") =>
      /\ status = "running"
      /\ calls[i].id \notin DOMAIN clients

\* C2: stream_send of the fixed message is invoked at most once per
\* connection: once it has been invoked on a connection, no later step
\* invokes it on that connection again.
C2_HelloSentOnce ==
  [][\A d \in DOMAIN clients : clients[d].tried => ~StreamSendStep(d)]_vars

\* C3: the dispatcher never finishes a cycle in which a datagram was ingested
\* while the engine of that connection still has a packet due.
C3_DrainedBeforeNextReceive ==
  (pc = "end" /\ Invoked("recv", "ok")) => clients[hdr.dcid].pending = 0

\* C4: a cycle for a datagram whose header parses and whose version differs
\* from the configured one, once it is over (at the end of the loop body, or
\* with the loop left), has sent exactly one datagram: a version negotiation
\* to the datagram's source address, listing the configured version, with
\* the sniffed source and destination ids in each other's place.
C4_VersionNegotiationReply ==
  (pc \in {"end", "done"} /\ VersionDiffers) =>
    /\ Len(sent) = 1
    /\ sent[1].to = cur.from
    /\ sent[1].pkt.kind = "vn"
    /\ PROTOCOL_VERSION \in sent[1].pkt.versions
    /\ sent[1].pkt.dcid = Sniffed.scid
    /\ sent[1].pkt.scid = Sniffed.dcid

\* C5: in a cycle for a datagram whose sniffed version equals the configured
\* version no version-negotiation datagram is sent.
C5_NoNegotiationForSupported ==
  VersionMatches => \A i \in DOMAIN sent : sent[i].pkt.kind # "vn"

C5_Witness ==
  /\ pc = "end" /\ VersionMatches
  /\ Len(sent) = 1 /\ sent[1].pkt.kind = "quic"

\* C6: no step of a cycle for a datagram of an unsupported version changes
\* the Connection Table or invokes an engine operation.
C6_UnsupportedVersionTouchesNothing ==
  [][VersionDiffers => (clients' = clients /\ calls = <<>> /\ calls' = <<>>)]_vars

C6_Witness ==
  /\ pc = "end" /\ VersionDiffers
  /\ Len(sent) = 1
  /\ DOMAIN clients # {}
  /\ hdr.dcid \notin DOMAIN clients

\* C7: accept returns at most one connection per identifier, and the table
\* entry of an identifier is that connection for the rest of the run.
C7_OneStatePerId ==
  \A d \in CIDs :
    /\ naccept[d] <= 1
    /\ d \in DOMAIN clients => (naccept[d] = 1 /\ clients[d].uid = <<d, 1>>)

C7_Witness ==
  /\ pc = "ingest" /\ calls = <<>>
  /\ hdr.dcid \in DOMAIN clients
  /\ clients[hdr.dcid].tried

\* C8: once conn.send has answered Done the loop is still running and at the
\* end of the loop body, from where it goes back to receiving.
C8_DoneIsNotFatal ==
  (calls # <<>> /\ LastCall.op = "send" /\ LastCall.res = "done") =>
    (status = "running" /\ pc = "end")

\* C9 as stated: a failed socket send aborts the entry point with an error.
C9_SendFailureFatal ==
  (\E i \in DOMAIN sent : ~sent[i].ok) => status = "returned_err"

\* C9 as amended: a failed socket send (of a version negotiation or of an
\* engine packet) never makes the entry point return an error: the loop is
\* still running, at the end of the loop body, unless the eprintln! that
\* reports the failure has panicked.
C9_SendFailureLogged ==
  (\E i \in DOMAIN sent : ~sent[i].ok) =>
    \/ status = "running" /\ pc = "end"
    \/ status = "panicked" /\ pc = "done"

C9_Witness ==
  /\ pc = "end" /\ status = "running"
  /\ \E i \in DOMAIN sent : ~sent[i].ok /\ sent[i].pkt.kind = "quic"

\* C10: once recv_from has failed the entry point has returned an error and
\* the loop is over: no datagram is being processed, no engine operation has
\* been invoked and nothing has been sent since.
C10_RecvFailureAborts ==
  recvFailed =>
    /\ status = "returned_err" /\ pc = "done"
    /\ cur = NoDgram /\ hdr = NoHdr
    /\ calls = <<>> /\ sent = <<>>

C10_Witness ==
  /\ recvFailed
  /\ status = "returned_err"
  /\ DOMAIN clients # {}

\* C11: a datagram whose header does not parse is dropped: no step of its
\* cycle changes the Connection Table, invokes an engine operation or sends
\* a datagram, and the loop keeps running and goes back to receiving.
ParseFailed == cur # NoDgram /\ ~HeaderParsed

C11_ParseFailureDiscards ==
  [][ParseFailed =>
       /\ clients' = clients
       /\ calls' = <<>> /\ sent' = <<>>
       /\ status' = "running"
       /\ pc' \in {"end", "recv"}]_vars

\* C12: after conn.recv or conn.stream_send has failed in a cycle the loop is
\* still running, on its way to the end of the loop body and back to
\* receiving.
C12_EngineFailureRecoverable ==
  (Invoked("recv", "err") \/ Invoked("stream_send", "err")) =>
    (status = "running" /\ pc \in {"flush", "end"})

\* C13: a well-formed QUIC v1 datagram, long or short header, whose
\* destination id is a key of the table is fed exactly once to conn.recv of
\* the connection under that key, to no other connection, and is not answered
\* with a version negotiation.
IsQuicV1(d) ==
  d # NoDgram /\ d.wellformed /\ (d.form = "short" \/ d.version = PROTOCOL_VERSION)

C13_RoutedToItsConnection ==
  (pc = "end" /\ IsQuicV1(cur) /\ cur.dcid \in DOMAIN clients) =>
    /\ Cardinality({i \in DOMAIN calls : calls[i].op = "recv"}) = 1
    /\ \A i \in DOMAIN calls : calls[i].op = "recv" => calls[i].id = cur.dcid
    /\ \A i \in DOMAIN sent : sent[i].pkt.kind # "vn"

\* C14: quiche::accept is invoked exactly in the cycles whose datagram
\* parses, has the matching version and a destination id that is not a key
\* of the table; such a cycle reaches the table lookup; accept is given the
\* destination id of that datagram, and when it succeeds the one new entry of
\* the table is keyed by that id.
AcceptInvoked ==
  Len(calls') = Len(calls) + 1 /\ calls'[Len(calls')].op = "accept"

C14_AcceptOnUnseenId ==
  [][/\ AcceptInvoked <=>
          (pc = "route" /\ VersionMatches /\ Sniffed.dcid \notin DOMAIN clients)
     /\ AcceptInvoked => calls'[Len(calls')].id = Sniffed.dcid
     /\ (AcceptInvoked /\ calls'[Len(calls')].res = "ok") =>
          /\ DOMAIN clients' = DOMAIN clients \cup {Sniffed.dcid}
          /\ \A d \in DOMAIN clients : clients'[d] = clients[d]
     /\ (VersionMatches /\ pc \in {"parse", "version"}) =>
          pc' \in {"version", "route"}]_vars

\* C15: a datagram is received only when the cycle of the one before it is
\* complete; within a cycle the loop only moves forward through parse,
\* version test, table, ingest, respond, flush; and a cycle calls conn.recv at
\* most once, for the datagram of that cycle.
Stage(p) ==
  CASE p = "recv" -> 0 [] p = "parse" -> 1 [] p = "version" -> 2
    [] p = "route" -> 3 [] p = "ingest" -> 4 [] p = "respond" -> 5
    [] p = "flush" -> 6 [] p = "end" -> 7 [] p = "done" -> 8

C15_OneDatagramAtATime ==
  [][/\ (cur' # cur /\ cur' # NoDgram) =>
          (pc = "recv" /\ cur = NoDgram /\ hdr = NoHdr /\ calls = <<>> /\ sent = <<>>)
     /\ pc # "end" => Stage(pc') > Stage(pc)
     /\ Cardinality({i \in DOMAIN calls' : calls'[i].op = "recv"}) <= 1
     /\ \A i \in DOMAIN calls' :
          calls'[i].op = "recv" => (HeaderParsed /\ calls'[i].id = Sniffed.dcid)]_vars

C15_Witness ==
  /\ pc = "respond"
  /\ calls = <<Call("recv", cur.dcid, "ok")>>
  /\ clients[cur.dcid].tried

\* the datagram of this cycle has been handed to Header::from_slice
SnifferSaw == cur # NoDgram /\ pc # "parse"
\* the datagram of this cycle has been handed to conn.recv
IngestSaw == \E i \in DOMAIN calls : calls[i].op = "recv"

\* C16 as stated: no datagram larger than MAX_DATAGRAM_SIZE is handed to the
\* header sniffer or to a connection's ingest.
C16_AtMostMaxDatagramSize ==
  (SnifferSaw \/ IngestSaw) => cur.len <= MAX_DATAGRAM_SIZE

\* C16, amended: what is handed to the header sniffer and to ingest is
\* buf[..len], the datagram in the length it arrived with, which is at most
\* the 65535 bytes of the receive buffer; MAX_DATAGRAM_SIZE plays no part.
C16_AtMostReceiveBuffer ==
  (SnifferSaw \/ IngestSaw) => (cur.len \in WireSizes /\ cur.len <= BufSize)

C16_Witness ==
  /\ IngestSaw /\ LastCall.res = "ok"
  /\ cur.len > MAX_DATAGRAM_SIZE /\ cur.len = 65507

\* conn.send is called on connection d after the i-th engine call of the cycle
SendAfter(i, d) ==
  \E j \in DOMAIN calls : j > i /\ calls[j].op = "send" /\ calls[j].id = d

\* C17 as stated: in every cycle in which conn.recv is called on a connection,
\* with either result, conn.send is called on that connection before the
\* next datagram is received.
C17_FlushAfterEveryIngest ==
  pc = "end" =>
    \A i \in DOMAIN calls : calls[i].op = "recv" => SendAfter(i, calls[i].id)

\* C17, amended: conn.send follows in the cycle exactly when conn.recv
\* returned Ok; a cycle whose conn.recv returned Err ends with no conn.send.
C17_FlushAfterSuccessfulIngest ==
  pc = "end" =>
    \A i \in DOMAIN calls : calls[i].op = "recv" =>
      (calls[i].res = "ok" <=> SendAfter(i, calls[i].id))

C17_Witness ==
  /\ pc = "end"
  /\ Len(calls) = 3
  /\ calls[1] = Call("recv", cur.dcid, "ok")
  /\ calls[2] = Call("stream_send", cur.dcid, "err")
  /\ calls[3].op = "send"

\* C18: no step removes a key from the table, whatever the step is; a step
\* of the running loop that accepts a connection adds its key, with no limit
\* on how many keys the table already holds.
C18_TableOnlyGrows ==
  [][/\ DOMAIN clients \subseteq DOMAIN clients'
     /\ (AcceptInvoked /\ calls'[Len(calls')].res = "ok" /\ status' = "running") =>
          Cardinality(DOMAIN clients') = Cardinality(DOMAIN clients) + 1]_vars

C18_Witness ==
  /\ DOMAIN clients = CIDs
  /\ pc = "end" /\ Invoked("send", "err")
  /\ \A d \in CIDs : clients[d].finished

\* C19: every stream_send call of a cycle comes after a conn.recv on the same
\* connection that returned Ok in that cycle, on a connection that is
\* established and whose stream 0 is not finished; a connection that is not
\* established has never been handed the message.
C19_HelloOnlyWhenEstablished ==
  /\ \A i \in DOMAIN calls : calls[i].op = "stream_send" =>
        /\ \E j \in 1..(i - 1) : calls[j] = Call("recv", calls[i].id, "ok")
        /\ calls[i].id = hdr.dcid
        /\ clients[hdr.dcid].established
        /\ ~clients[hdr.dcid].finished
  /\ \A d \in DOMAIN clients :
        ~clients[d].established => (~clients[d].tried /\ ~clients[d].finSent)

C19_Witness ==
  /\ pc = "flush"
  /\ Invoked("stream_send", "ok")
  /\ \E d \in DOMAIN clients : ~clients[d].established /\ clients[d].pending > 0

\* the table entries a step creates or changes
Touched ==
  {d \in DOMAIN clients' : d \notin DOMAIN clients \/ clients'[d] # clients[d]}

\* C20: while the datagram with destination identifier D is processed, every
\* engine call is made on the entry keyed D and no step creates or changes
\* any other entry; a datagram whose header does not parse touches no entry.
C20_OneConnectionPerCycle ==
  [][/\ Touched \subseteq (IF HeaderParsed THEN {Sniffed.dcid} ELSE {})
     /\ \A i \in DOMAIN calls' :
          HeaderParsed /\ calls'[i].id = Sniffed.dcid]_vars

C20_Witness ==
  /\ pc = "end"
  /\ Cardinality(DOMAIN clients) = 2
  /\ Invoked("recv", "ok") /\ Invoked("stream_send", "err") /\ Invoked("send", "err")
  /\ \E d \in DOMAIN clients : d # cur.dcid /\ clients[d].pending > 0

====
